---- MODULE Spec2Model ----
(***************************************************************************)
(* A model of scripts/download_cef.py: the one-shot pipeline               *)
(*   resolve platform -> fetch index -> select version -> select file      *)
(*   -> (info only | mkdir -> download -> extract -> report).              *)
(* Python strings that the script inspects or builds (file names, URLs,    *)
(* dotted version numbers) are sequences of one-character strings; strings *)
(* it only compares or copies are TLA+ strings.  A Python dict is a        *)
(* function whose DOMAIN is the set of keys that are present.              *)
(***************************************************************************)
EXTENDS Integers, Sequences, FiniteSets, TLC

(***************************************************************************)
(* Bounds of the input spaces.                                             *)
(***************************************************************************)
MaxVersions == 3
MaxFiles == 3
MaxSegs == 3
MaxRuns == 2

(***************************************************************************)
(* Python values.                                                          *)
(***************************************************************************)
EmptyDict == [k \in {} |-> TRUE]

\* dict.get(k, default)
Get(d, k, default) == IF k \in DOMAIN d THEN d[k] ELSE default

\* A dict with one optional key: opt is <<>> (key absent) or <<value>>.
Field(k, opt) == IF opt = <<>> THEN EmptyDict ELSE (k :> opt[1])

\* The outcome of a call: a returned value or a raised exception.
Return(v) == [ret |-> v]
Raise(e) == [exc |-> e]
Raised(r) == "exc" \in DOMAIN r

\* Unbound locals.
None == [none |-> TRUE]
NoStr == <<>>

\* s.startswith(p), for sequences of characters.
StartsWith(s, p) == Len(s) >= Len(p) /\ SubSeq(s, 1, Len(p)) = p

\* p in s (substring test).
Contains(s, p) ==
    \E i \in 1..(Len(s) - Len(p) + 1) : SubSeq(s, i, i + Len(p) - 1) = p

\* s.rfind("."): the 1-based index of the last ".", 0 if there is none.
RFindDot(s) ==
    LET dots == {i \in 1..Len(s) : s[i] = "."}
    IN  IF dots = {} THEN 0 ELSE CHOOSE i \in dots : \A j \in dots : j <= i

\* s.split(".")[0]: the characters before the first ".".
FirstComponent(s) ==
    LET dots == {i \in 1..Len(s) : s[i] = "."}
    IN  IF dots = {} THEN s
        ELSE SubSeq(s, 1, (CHOOSE i \in dots : \A j \in dots : i <= j) - 1)

Digits == {"0", "1", "2", "3", "4", "5", "6", "7", "8", "9"}

DigitVal(c) ==
    CASE c = "0" -> 0 [] c = "1" -> 1 [] c = "2" -> 2 [] c = "3" -> 3
      [] c = "4" -> 4 [] c = "5" -> 5 [] c = "6" -> 6 [] c = "7" -> 7
      [] c = "8" -> 8 [] c = "9" -> 9

\* int(s) succeeds on a non-empty run of decimal digits (ValueError otherwise).
IsInt(s) == s # <<>> /\ \A i \in 1..Len(s) : s[i] \in Digits

RECURSIVE IntOf(_)
IntOf(s) ==
    IF s = <<>> THEN 0
    ELSE 10 * IntOf(SubSeq(s, 1, Len(s) - 1)) + DigitVal(s[Len(s)])

(***************************************************************************)
(* Module constants (lines 13-23).                                         *)
(***************************************************************************)
CEF_INDEX_URL ==
    <<"h","t","t","p","s",":","/","/","c","e","f","-","b","u","i","l","d","s",
      ".","s","p","o","t","i","f","y","c","d","n",".","c","o","m",
      "/","i","n","d","e","x",".","j","s","o","n">>

CEF_DOWNLOAD_BASE ==
    <<"h","t","t","p","s",":","/","/","c","e","f","-","b","u","i","l","d","s",
      ".","s","p","o","t","i","f","y","c","d","n",".","c","o","m">>

\* The dict in insertion order, which is the order .items() iterates in.
PLATFORM_MAP ==
    << [plat_id |-> "linux64",      s |-> "Linux",   m |-> "x86_64"],
       [plat_id |-> "linuxarm64",   s |-> "Linux",   m |-> "aarch64"],
       [plat_id |-> "macosx64",     s |-> "Darwin",  m |-> "x86_64"],
       [plat_id |-> "macosarm64",   s |-> "Darwin",  m |-> "arm64"],
       [plat_id |-> "windows64",    s |-> "Windows", m |-> "AMD64"],
       [plat_id |-> "windowsarm64", s |-> "Windows", m |-> "ARM64"] >>

(***************************************************************************)
(* get_platform_id (lines 26-33): the first item of PLATFORM_MAP whose     *)
(* pair equals (system, machine); RuntimeError if there is none.           *)
(***************************************************************************)
\* Mutant: the machine is not compared.
PlatformMatches_SystemOnly(item, system, machine) == item.s = system

PlatformMatches(item, system, machine) == item.s = system /\ item.m = machine

get_platform_id(system, machine) ==
    LET hits == {i \in 1..Len(PLATFORM_MAP) :
                    PlatformMatches(PLATFORM_MAP[i], system, machine)}
    IN  IF hits = {} THEN Raise("get_platform_id: RuntimeError")
        ELSE Return(PLATFORM_MAP[CHOOSE i \in hits : \A j \in hits : i <= j].plat_id)

(***************************************************************************)
(* find_latest_stable (lines 43-50).                                       *)
(***************************************************************************)
\* Mutant: an entry without a channel counts as stable.
IsStable_DefaultStable(v) == Get(v, "channel", "stable") = "stable"

IsStable(v) == "channel" \in DOMAIN v /\ v["channel"] = "stable"

\* The text the sort key parses: v.get("chromium_version", "0").split(".")[0]
KeyText(v) == FirstComponent(Get(v, "chromium_version", <<"0">>))

\* key=lambda v: int(...)
SortKey(v) == IntOf(KeyText(v))

\* One step of a stable descending sort: v goes after every element whose key
\* is greater than or equal to its own (reverse=True keeps equal elements in
\* their original order).
\* Mutant: reverse=True is forgotten, the sort is ascending.
BeforeInSort_Ascending(a, b) == SortKey(a) <= SortKey(b)

BeforeInSort(a, b) == SortKey(a) >= SortKey(b)

InsertDesc(sorted, v) ==
    LET n == Cardinality({i \in 1..Len(sorted) : BeforeInSort(sorted[i], v)})
    IN  SubSeq(sorted, 1, n) \o <<v>> \o SubSeq(sorted, n + 1, Len(sorted))

RECURSIVE SortDesc(_)
SortDesc(s) ==
    IF s = <<>> THEN <<>>
    ELSE InsertDesc(SortDesc(SubSeq(s, 1, Len(s) - 1)), s[Len(s)])

find_latest_stable(idx, plat) ==
    LET versions == Get(Get(idx, plat, EmptyDict), "versions", <<>>)
        stable == SelectSeq(versions, IsStable)
    IN  IF stable = <<>> THEN Raise("find_latest_stable: RuntimeError")
        ELSE IF \E i \in 1..Len(stable) : ~IsInt(KeyText(stable[i]))
             THEN Raise("find_latest_stable: ValueError")
        ELSE Return(SortDesc(stable)[1])

(***************************************************************************)
(* get_minimal_dist (lines 53-61).                                         *)
(***************************************************************************)
HasType(f, t) == "type" \in DOMAIN f /\ f["type"] = t

FirstOfType(files, t) ==
    LET hits == {i \in 1..Len(files) : HasType(files[i], t)}
    IN  IF hits = {} THEN 0 ELSE CHOOSE i \in hits : \A j \in hits : i <= j

\* Mutant: one loop that takes the first entry of either kind.
get_minimal_dist_FirstOfEither(vd) ==
    LET files == Get(vd, "files", <<>>)
        hits == {i \in 1..Len(files) :
                    HasType(files[i], "minimal") \/ HasType(files[i], "standard")}
    IN  IF hits = {} THEN Raise("get_minimal_dist: RuntimeError")
        ELSE Return(files[CHOOSE i \in hits : \A j \in hits : i <= j])

get_minimal_dist(vd) ==
    LET files == Get(vd, "files", <<>>)
        mi == FirstOfType(files, "minimal")
        st == FirstOfType(files, "standard")
    IN  IF mi # 0 THEN Return(files[mi])
        ELSE IF st # 0 THEN Return(files[st])
        ELSE Raise("get_minimal_dist: RuntimeError")

(***************************************************************************)
(* extract's dispatch (line 79).  pathlib's suffix of a name is the text   *)
(* from its last "." on, unless that "." is the first or the last          *)
(* character, and then it is empty (PurePath.suffix of CPython 3.11).      *)
(***************************************************************************)
Suffix(name) ==
    LET i == RFindDot(name)
    IN  IF 1 < i /\ i < Len(name) THEN SubSeq(name, i, Len(name)) ELSE <<>>

\* Mutant: "tar" is looked for without its dot.
UsesTar_NoDot(name) ==
    Suffix(name) = <<".", "b", "z", "2">> \/ Contains(name, <<"t", "a", "r">>)

UsesTar(name) ==
    Suffix(name) = <<".", "b", "z", "2">> \/ Contains(name, <<".", "t", "a", "r">>)

(***************************************************************************)
(* State.  host, remote and fs are the script's environment: the machine   *)
(* it runs on, the document served at CEF_INDEX_URL and the output         *)
(* directory.  args and the names of main's locals follow the source.      *)
(*   net, stdout   the GETs issued and the lines printed by this run       *)
(*   detected      whether this run called get_platform_id                 *)
(*   mode          the archive library extract dispatched to               *)
(*   error         the uncaught exception that ended the run, "" if none   *)
(*   fs0           the output directory as this run found it               *)
(*   prev          <<>> or <<the previous run's final state>>              *)
(***************************************************************************)
VARIABLES host, remote, fs,
          args, pc, platform_id, index, version_data, cef_version,
          file_info, filename, sha1, url,
          net, stdout, detected, mode, error, fs0, prev, runs

vars == <<host, remote, fs, args, pc, platform_id, index, version_data,
          cef_version, file_info, filename, sha1, url,
          net, stdout, detected, mode, error, fs0, prev, runs>>

\* Python truthiness of an optional string argument (None and "" are falsy).
Truthy(opt) == opt # <<>> /\ opt[1] # ""

\* File names in the output directory.
CEF_VERSION == <<"C","E","F","_","V","E","R","S","I","O","N">>
GlobPrefix == <<"c","e","f","_","b","i","n","a","r","y","_">>

\* What an entry of the output directory holds.
Archive(format, members) == [kind |-> "file", format |-> format, members |-> members]
Dir == [kind |-> "dir"]
Text(t) == [kind |-> "text", text |-> t]

\* A GET.
Request(fn, u) == [fn |-> fn, url |-> u]

Fail(e) ==
    /\ pc' = "error"
    /\ error' = e

(***************************************************************************)
(* main, line 95: platform_id = args.platform or get_platform_id()         *)
(***************************************************************************)
ResolvePlatform ==
    /\ pc = "start"
    /\ IF Truthy(args.platform)
       THEN /\ platform_id' = args.platform[1]
            /\ detected' = FALSE
            /\ pc' = "fetch"
            /\ error' = error
       ELSE LET r == get_platform_id(host.system, host.machine)
            IN  /\ detected' = TRUE
                /\ IF Raised(r)
                   THEN Fail(r.exc) /\ platform_id' = platform_id
                   ELSE /\ platform_id' = r.ret
                        /\ pc' = "fetch"
                        /\ error' = error
    /\ UNCHANGED <<host, remote, fs, args, index, version_data, cef_version,
                   file_info, filename, sha1, url, net, stdout, mode, fs0,
                   prev, runs>>

(***************************************************************************)
(* main, line 96, and fetch_index (lines 36-40): one GET of CEF_INDEX_URL; *)
(* urlopen or json.load raises when the document is unreachable or is not  *)
(* JSON (remote = <<>>).                                                   *)
(***************************************************************************)
FetchIndex ==
    /\ pc = "fetch"
    /\ stdout' = Append(stdout, [msg |-> "Fetching CEF index..."])
    /\ net' = Append(net, Request("urlopen", CEF_INDEX_URL))
    /\ IF remote = <<>>
       THEN Fail("fetch_index: URLError") /\ index' = index
       ELSE /\ index' = remote[1]
            /\ pc' = "select_version"
            /\ error' = error
    /\ UNCHANGED <<host, remote, fs, args, platform_id, version_data,
                   cef_version, file_info, filename, sha1, url, detected,
                   mode, fs0, prev, runs>>

\* Mutant: --version is honoured, a stable entry with that cef_version is
\* selected when there is one.
SelectVersion_ByArg ==
    /\ pc = "select_version"
    /\ LET r == find_latest_stable(index, platform_id)
           versions == Get(Get(index, platform_id, EmptyDict), "versions", <<>>)
           asked == {i \in 1..Len(versions) :
                        /\ args.version # <<>>
                        /\ IsStable(versions[i])
                        /\ Get(versions[i], "cef_version", "unknown") = args.version[1]}
           chosen == IF asked = {} THEN r.ret ELSE versions[CHOOSE i \in asked : TRUE]
       IN  IF Raised(r)
           THEN Fail(r.exc) /\ UNCHANGED <<version_data, cef_version>>
           ELSE /\ version_data' = chosen
                /\ cef_version' = Get(chosen, "cef_version", "unknown")
                /\ pc' = "select_file"
                /\ error' = error
    /\ UNCHANGED <<host, remote, fs, args, platform_id, index, file_info,
                   filename, sha1, url, net, stdout, detected, mode, fs0,
                   prev, runs>>

(***************************************************************************)
(* main, lines 97-98.                                                      *)
(***************************************************************************)
SelectVersion ==
    /\ pc = "select_version"
    /\ LET r == find_latest_stable(index, platform_id)
       IN  IF Raised(r)
           THEN Fail(r.exc) /\ UNCHANGED <<version_data, cef_version>>
           ELSE /\ version_data' = r.ret
                /\ cef_version' = Get(r.ret, "cef_version", "unknown")
                /\ pc' = "select_file"
                /\ error' = error
    /\ UNCHANGED <<host, remote, fs, args, platform_id, index, file_info,
                   filename, sha1, url, net, stdout, detected, mode, fs0,
                   prev, runs>>

\* Mutant: the output directory is made before the file entry is selected.
SelectFile_MkdirFirst ==
    /\ pc = "select_file"
    /\ fs' = [fs EXCEPT !.dir = TRUE]
    /\ LET r == get_minimal_dist(version_data)
       IN  IF Raised(r)
           THEN Fail(r.exc) /\ UNCHANGED <<file_info, filename, sha1, url>>
           ELSE /\ file_info' = r.ret
                /\ IF "name" \notin DOMAIN r.ret
                   THEN Fail("main: KeyError") /\ UNCHANGED <<filename, sha1, url>>
                   ELSE /\ filename' = r.ret["name"]
                        /\ sha1' = Get(r.ret, "sha1", "")
                        /\ url' = CEF_DOWNLOAD_BASE \o <<"/">> \o r.ret["name"]
                        /\ pc' = "branch"
                        /\ error' = error
    /\ UNCHANGED <<host, remote, args, platform_id, index, version_data,
                   cef_version, net, stdout, detected, mode, fs0, prev, runs>>

(***************************************************************************)
(* main, lines 99-102.  file_info["name"] raises KeyError when the chosen  *)
(* file entry has no name.                                                 *)
(***************************************************************************)
MakeUrl(name) == CEF_DOWNLOAD_BASE \o <<"/">> \o name

SelectFile ==
    /\ pc = "select_file"
    /\ LET r == get_minimal_dist(version_data)
       IN  IF Raised(r)
           THEN Fail(r.exc) /\ UNCHANGED <<file_info, filename, sha1, url>>
           ELSE /\ file_info' = r.ret
                /\ IF "name" \notin DOMAIN r.ret
                   THEN Fail("main: KeyError") /\ UNCHANGED <<filename, sha1, url>>
                   ELSE /\ filename' = r.ret["name"]
                        /\ sha1' = Get(r.ret, "sha1", "")
                        /\ url' = MakeUrl(r.ret["name"])
                        /\ pc' = "branch"
                        /\ error' = error
    /\ UNCHANGED <<host, remote, fs, args, platform_id, index, version_data,
                   cef_version, net, stdout, detected, mode, fs0, prev, runs>>

(***************************************************************************)
(* main, lines 104-106: --info-only prints the metadata and returns.       *)
(***************************************************************************)
InfoOnly ==
    /\ pc = "branch"
    /\ args.info_only
    /\ stdout' = Append(stdout, [msg |-> "info", cef_version |-> cef_version,
                                 url |-> url, sha1 |-> sha1])
    /\ pc' = "done"
    /\ UNCHANGED <<host, remote, fs, args, platform_id, index, version_data,
                   cef_version, file_info, filename, sha1, url, net, detected,
                   mode, error, fs0, prev, runs>>

\* Mutant: the directory is made whether or not --info-only was given.
MakeOutputDir_Unguarded ==
    /\ pc = "branch"
    /\ fs' = [fs EXCEPT !.dir = TRUE]
    /\ pc' = IF args.info_only THEN "branch" ELSE "download"
    /\ fs.dir = FALSE \/ ~args.info_only
    /\ UNCHANGED <<host, remote, args, platform_id, index, version_data,
                   cef_version, file_info, filename, sha1, url, net, stdout,
                   detected, mode, error, fs0, prev, runs>>

(***************************************************************************)
(* main, lines 108-109: output_dir.mkdir(parents=True, exist_ok=True);     *)
(* archive_path is output_dir / filename, the entry named filename.        *)
(***************************************************************************)
MakeOutputDir ==
    /\ pc = "branch"
    /\ ~args.info_only
    /\ fs' = [fs EXCEPT !.dir = TRUE]
    /\ pc' = "download"
    /\ UNCHANGED <<host, remote, args, platform_id, index, version_data,
                   cef_version, file_info, filename, sha1, url, net, stdout,
                   detected, mode, error, fs0, prev, runs>>

(***************************************************************************)
(* main, lines 111-114, and download_file (lines 64-73): the archive is    *)
(* fetched only when no entry named filename exists.  urlretrieve either   *)
(* writes what the server sends or raises.                                 *)
(***************************************************************************)
\* Mutant: the existence test never succeeds.
ArchiveExists_Never(f, name) == FALSE

ArchiveExists(f, name) == name \in DOMAIN f.entries

tar_members == {<<"c","e","f","_","b","i","n","a","r","y","_","a">>}
doc_members == {<<"R","E","A","D","M","E">>}

\* What the download URL may serve.
ServedArchives ==
    { Archive("tar.bz2", tar_members), Archive("zip", tar_members),
      Archive("tar.bz2", doc_members), Archive("zip", doc_members) }

Download ==
    /\ pc = "download"
    /\ IF ArchiveExists(fs, filename)
       THEN /\ stdout' = Append(stdout, [msg |-> "Using cached", path |-> filename])
            /\ pc' = "extract"
            /\ UNCHANGED <<fs, net, error>>
       ELSE /\ net' = Append(net, Request("urlretrieve", url))
            /\ \/ \E data \in ServedArchives :
                    /\ fs' = [fs EXCEPT !.entries = (filename :> data) @@ @]
                    /\ stdout' = Append(Append(stdout,
                                    [msg |-> "Downloading", url |-> url]), [msg |-> ""])
                    /\ pc' = "extract"
                    /\ error' = error
               \/ /\ stdout' = Append(stdout, [msg |-> "Downloading", url |-> url])
                  /\ Fail("download_file: URLError")
                  /\ fs' = fs
    /\ UNCHANGED <<host, remote, args, platform_id, index, version_data,
                   cef_version, file_info, filename, sha1, url, detected,
                   mode, fs0, prev, runs>>

(***************************************************************************)
(* main, line 117, and extract (lines 76-84): the name decides the         *)
(* library; the library raises when the file is not in its format, and     *)
(* extractall writes the archive's members over the output directory.      *)
(***************************************************************************)
FormatOf(m) == IF m = "tar" THEN "tar.bz2" ELSE "zip"

Extract ==
    /\ pc = "extract"
    /\ stdout' = Append(stdout, [msg |-> "Extracting to output_dir"])
    /\ LET m == IF UsesTar(filename) THEN "tar" ELSE "zip"
           a == fs.entries[filename]
       IN  /\ mode' = m
           /\ IF a.kind = "file" /\ a.format = FormatOf(m)
              THEN /\ fs' = [fs EXCEPT !.entries = [n \in a.members |-> Dir] @@ @]
                   /\ pc' = "report"
                   /\ error' = error
              ELSE /\ Fail(IF m = "tar" THEN "extract: ReadError" ELSE "extract: BadZipFile")
                   /\ fs' = fs
    /\ UNCHANGED <<host, remote, args, platform_id, index, version_data,
                   cef_version, file_info, filename, sha1, url, net, detected,
                   fs0, prev, runs>>

(***************************************************************************)
(* main, lines 120-124: extracted = list(output_dir.glob("cef_binary_*")), *)
(* in the order the directory is listed, which the file system decides;    *)
(* the first is printed and the marker is written only if there is one.    *)
(***************************************************************************)
Glob(f) == {n \in DOMAIN f.entries : StartsWith(n, GlobPrefix)}

Report ==
    /\ pc = "report"
    /\ \/ /\ Glob(fs) = {}
          /\ UNCHANGED <<fs, stdout>>
       \/ \E first \in Glob(fs) :
             /\ stdout' = Append(stdout, [msg |-> "CEF ready at", path |-> first])
             /\ fs' = [fs EXCEPT !.entries = (CEF_VERSION :> Text(cef_version)) @@ @]
    /\ pc' = "done"
    /\ UNCHANGED <<host, remote, args, platform_id, index, version_data,
                   cef_version, file_info, filename, sha1, url, net, detected,
                   mode, error, fs0, prev, runs>>

(***************************************************************************)
(* The script is run again, with any arguments, on the same machine and    *)
(* over the output directory the earlier run left.                         *)
(***************************************************************************)
Snapshot ==
    [args |-> args, pc |-> pc, platform_id |-> platform_id,
     version_data |-> version_data, cef_version |-> cef_version,
     file_info |-> file_info, url |-> url, net |-> net, stdout |-> stdout]

Fresh(a) ==
    /\ args = a
    /\ pc = "start"
    /\ platform_id = ""
    /\ index = None
    /\ version_data = None
    /\ cef_version = ""
    /\ file_info = None
    /\ filename = NoStr
    /\ sha1 = ""
    /\ url = NoStr
    /\ net = <<>>
    /\ stdout = <<>>
    /\ detected = FALSE
    /\ mode = "none"
    /\ error = ""

Args(platform, version, info_only) ==
    [platform |-> platform, version |-> version, info_only |-> info_only]

RunArgs ==
    { Args(p, v, i) : p \in {<<>>, <<"">>, <<"linux64">>, <<"windows64">>},
                      v \in {<<>>, <<"119.4.7">>},
                      i \in BOOLEAN }

Rerun ==
    /\ pc \in {"done", "error"}
    /\ runs < MaxRuns
    /\ \E a \in RunArgs :
          /\ args' = a
          /\ pc' = "start"
          /\ platform_id' = ""
          /\ index' = None
          /\ version_data' = None
          /\ cef_version' = ""
          /\ file_info' = None
          /\ filename' = NoStr
          /\ sha1' = ""
          /\ url' = NoStr
          /\ net' = <<>>
          /\ stdout' = <<>>
          /\ detected' = FALSE
          /\ mode' = "none"
          /\ error' = ""
    /\ prev' = <<Snapshot>>
    /\ fs0' = fs
    /\ runs' = runs + 1
    /\ UNCHANGED <<host, remote, fs>>

(***************************************************************************)
(* Inputs of whole runs: hosts, index documents and output directories.    *)
(***************************************************************************)
N_tar == <<"c","e","f","_","b","i","n","a","r","y","_","a",".","t","a","r",".","b","z","2">>
N_zip == <<"c","e","f","_","b","i","n","a","r","y","_","a",".","z","i","p">>
N_dist == <<"d","i","s","t",".","z","i","p">>

F_tar == [type |-> "minimal", name |-> N_tar, sha1 |-> "aa11"]
F_zip == [type |-> "standard", name |-> N_zip, sha1 |-> "bb22"]
F_dist == [type |-> "standard", name |-> N_dist]
F_noname == [type |-> "minimal", sha1 |-> "cc33"]
F_debug == [type |-> "debug", name |-> N_zip]

V120 == [channel |-> "stable", chromium_version |-> <<"1","2","0",".","0",".","1">>,
         cef_version |-> "120.1.8", files |-> <<F_zip, F_tar>>]
V120z == [channel |-> "stable", chromium_version |-> <<"1","2","0",".","0",".","1">>,
          cef_version |-> "120.1.8", files |-> <<F_zip>>]
V119 == [channel |-> "stable", chromium_version |-> <<"1","1","9",".","4">>,
         cef_version |-> "119.4.7", files |-> <<F_dist>>]
V121b == [channel |-> "beta", chromium_version |-> <<"1","2","1",".","0">>,
          cef_version |-> "121.0.1", files |-> <<F_tar>>]
V9 == [channel |-> "stable", chromium_version |-> <<"9",".","3","0">>,
       files |-> <<F_debug, F_noname>>]
V118 == [channel |-> "stable", chromium_version |-> <<"1","1","8",".","1">>,
         cef_version |-> "118.1.0", files |-> <<F_debug>>]
Vdev == [channel |-> "stable", chromium_version |-> <<"d","e","v">>,
         cef_version |-> "0.0.0", files |-> <<F_tar>>]

IndexOf(plat, versions) == plat :> [versions |-> versions]

\* <<>> is a document that cannot be fetched or parsed.
MainRemotes ==
    { <<>>, <<EmptyDict>> } \cup
    { <<IndexOf("linux64", vs)>> :
        vs \in { <<V121b>>, <<V119, V121b, V120>>, <<V119, V9>>, <<V120z>>,
                 <<V9>>, <<V118>>, <<Vdev>> } }

Host(system, machine) == [system |-> system, machine |-> machine]

MainHosts == { Host("Linux", "x86_64"), Host("Darwin", "arm64"), Host("Linux", "riscv64") }

FreshFs == [dir |-> FALSE, entries |-> EmptyDict]

Init ==
    /\ host \in MainHosts
    /\ remote \in MainRemotes
    /\ fs = FreshFs
    /\ fs0 = FreshFs
    /\ prev = <<>>
    /\ runs = 1
    /\ \E a \in RunArgs : Fresh(a)

Next ==
    \/ ResolvePlatform
    \/ FetchIndex
    \/ SelectVersion
    \/ SelectFile
    \/ InfoOnly
    \/ MakeOutputDir
    \/ Download
    \/ Extract
    \/ Report
    \/ Rerun

Spec == Init /\ [][Next]_vars

(***************************************************************************)
(* Specifications of single steps, each started in the states a run is in  *)
(* when it reaches the step, over a wider space of the step's inputs.      *)
(***************************************************************************)
RECURSIVE SeqsUpTo(_, _)
SeqsUpTo(S, n) ==
    IF n = 0 THEN {<<>>}
    ELSE LET shorter == SeqsUpTo(S, n - 1)
         IN  shorter \cup {Append(q, x) : q \in shorter, x \in S}

FirstRun(h, r, f) ==
    /\ host = h
    /\ remote = r
    /\ fs = f
    /\ fs0 = FreshFs
    /\ prev = <<>>
    /\ runs = 1

\* Line 95, on every host and with --platform omitted, empty or given.
Systems == {"Linux", "Darwin", "Windows", "FreeBSD"}
Machines == {"x86_64", "aarch64", "arm64", "AMD64", "ARM64", "i686"}
AllHosts == {Host(sy, ma) : sy \in Systems, ma \in Machines}
PlatformArgs == {<<>>, <<"">>, <<"linux64">>, <<"freebsd64">>}

InitDetect ==
    /\ \E h \in AllHosts : FirstRun(h, <<EmptyDict>>, FreshFs)
    /\ \E p \in PlatformArgs : Fresh(Args(p, <<>>, FALSE))

SpecDetect == InitDetect /\ [][ResolvePlatform]_vars

\* Lines 97-98, over version lists of every channel and version mix.
ChromiumVersions ==
    { <<"1","2","0",".","0",".","1">>, <<"1","1","9",".","4">>, <<"9",".","3","0">> }

SelectEntries ==
    { Field("channel", ch) @@ Field("chromium_version", cv) :
        ch \in {<<>>, <<"stable">>, <<"beta">>},
        cv \in {<<>>} \cup {<<c>> : c \in ChromiumVersions} }

SelectIndexes ==
    { EmptyDict, "linux64" :> EmptyDict } \cup
    { IndexOf("linux64", vs) : vs \in SeqsUpTo(SelectEntries, MaxVersions) }

InitSelect ==
    \E idx \in SelectIndexes, plat \in {"linux64", "windows64"} :
        /\ FirstRun(Host("Linux", "x86_64"), <<idx>>, FreshFs)
        /\ args = Args(<<plat>>, <<>>, FALSE)
        /\ pc = "select_version"
        /\ platform_id = plat
        /\ index = idx
        /\ version_data = None
        /\ cef_version = ""
        /\ file_info = None
        /\ filename = NoStr
        /\ sha1 = ""
        /\ url = NoStr
        /\ net = <<Request("urlopen", CEF_INDEX_URL)>>
        /\ stdout = <<[msg |-> "Fetching CEF index..."]>>
        /\ detected = FALSE
        /\ mode = "none"
        /\ error = ""

SpecSelect == InitSelect /\ [][SelectVersion]_vars

\* Lines 99-102, over file lists of every kind mix.
FileEntries ==
    { Field("type", t) @@ Field("name", n) :
        t \in {<<>>, <<"minimal">>, <<"standard">>, <<"debug">>},
        n \in {<<>>, <<N_tar>>, <<N_dist>>} }

FileVersions ==
    { [channel |-> "stable", cef_version |-> "120.1.8"] } \cup
    { [channel |-> "stable", cef_version |-> "120.1.8", files |-> fl] :
        fl \in SeqsUpTo(FileEntries, MaxFiles) }

InitFiles ==
    \E vd \in FileVersions :
        /\ FirstRun(Host("Linux", "x86_64"), <<IndexOf("linux64", <<vd>>)>>, FreshFs)
        /\ args = Args(<<"linux64">>, <<>>, FALSE)
        /\ pc = "select_file"
        /\ platform_id = "linux64"
        /\ index = IndexOf("linux64", <<vd>>)
        /\ version_data = vd
        /\ cef_version = "120.1.8"
        /\ file_info = None
        /\ filename = NoStr
        /\ sha1 = ""
        /\ url = NoStr
        /\ net = <<Request("urlopen", CEF_INDEX_URL)>>
        /\ stdout = <<[msg |-> "Fetching CEF index..."]>>
        /\ detected = FALSE
        /\ mode = "none"
        /\ error = ""

SpecFiles == InitFiles /\ [][SelectFile]_vars

\* Line 117, over archive names made of the pieces the dispatch looks at.
Segments ==
    { <<"a">>, <<"t","a","r">>, <<".","t","a","r">>, <<".","b","z","2">>,
      <<".","z","i","p">>, <<".">> }

RECURSIVE Flatten(_)
Flatten(ss) == IF ss = <<>> THEN <<>> ELSE Head(ss) \o Flatten(Tail(ss))

ArchiveNames == {Flatten(ss) : ss \in SeqsUpTo(Segments, MaxSegs)} \ {<<>>}

InitExtract ==
    \E name \in ArchiveNames, format \in {"tar.bz2", "zip"} :
        LET fi == [type |-> "minimal", name |-> name]
            vd == [channel |-> "stable", cef_version |-> "120.1.8", files |-> <<fi>>]
        IN  /\ FirstRun(Host("Linux", "x86_64"), <<IndexOf("linux64", <<vd>>)>>,
                        [dir |-> TRUE, entries |-> name :> Archive(format, tar_members)])
            /\ args = Args(<<"linux64">>, <<>>, FALSE)
            /\ pc = "extract"
            /\ platform_id = "linux64"
            /\ index = IndexOf("linux64", <<vd>>)
            /\ version_data = vd
            /\ cef_version = "120.1.8"
            /\ file_info = fi
            /\ filename = name
            /\ sha1 = ""
            /\ url = MakeUrl(name)
            /\ net = <<Request("urlopen", CEF_INDEX_URL), Request("urlretrieve", MakeUrl(name))>>
            /\ stdout = <<[msg |-> "Fetching CEF index..."],
                          [msg |-> "Downloading", url |-> MakeUrl(name)], [msg |-> ""]>>
            /\ detected = FALSE
            /\ mode = "none"
            /\ error = ""

SpecExtract == InitExtract /\ [][Extract]_vars

(***************************************************************************)
(* Properties.                                                             *)
(***************************************************************************)
IndexGet == Request("urlopen", CEF_INDEX_URL)
DownloadGets(n) == {i \in 1..Len(n) : n[i].fn = "urlretrieve"}
IndexGets(n) == {i \in 1..Len(n) : n[i] = IndexGet}
DownloadUrls(n) == {n[i].url : i \in DownloadGets(n)}
Printed(out, m) == \E i \in 1..Len(out) : out[i].msg = m
EndsWith(s, p) == Len(s) >= Len(p) /\ SubSeq(s, Len(s) - Len(p) + 1, Len(s)) = p
Least(S) == CHOOSE i \in S : \A j \in S : i <= j
KindIs(f, k) == "type" \in DOMAIN f /\ f["type"] = k

\* The archive the run selected was in the output directory when it started.
CachedAtStart == filename # NoStr /\ filename \in DOMAIN fs0.entries

\* C1 as stated: in a run without --info-only that finds the selected archive
\* already in the output directory, the download is skipped and no network
\* call at all is issued.
C1_NoNetworkCallWhenCached ==
    (~args.info_only /\ CachedAtStart /\ pc \in {"extract", "report", "done", "error"})
        => /\ Printed(stdout, "Using cached")
           /\ net = <<>>

\* C1 as amended: in such a run the download step is skipped and no download
\* GET is issued; the one network call of the run is the index GET.
C1_CachedSkipsDownload ==
    (~args.info_only /\ CachedAtStart)
        => /\ net = <<IndexGet>>
           /\ pc \in {"extract", "report", "done", "error"}
                => Printed(stdout, "Using cached") /\ ~Printed(stdout, "Downloading")

C1_Witness ==
    /\ ~args.info_only
    /\ CachedAtStart
    /\ pc = "done"
    /\ Printed(stdout, "Using cached")

\* C2: every run without --info-only that completes without error has printed
\* the path of the directory the archive was extracted to and leaves
\* CEF_VERSION holding the selected entry's version string.
C2_ReportsDirAndWritesMarker ==
    (pc = "done" /\ ~args.info_only)
        => /\ \E i \in 1..Len(stdout) :
                /\ stdout[i].msg = "CEF ready at"
                /\ fs.entries[stdout[i].path].kind = "dir"
           /\ CEF_VERSION \in DOMAIN fs.entries
           /\ fs.entries[CEF_VERSION] = Text(cef_version)

\* C3: with --info-only the run leaves the output directory as it found it
\* (not created, nothing extracted, no marker), dispatches to no archive
\* library, issues no download GET and at most the index GET, and when it
\* completes its last line is the resolved version, URL and hash.
C3_InfoOnlyFrame ==
    args.info_only
        => /\ fs = fs0
           /\ mode = "none"
           /\ DownloadGets(net) = {}
           /\ Len(net) <= 1
           /\ pc = "done"
                => /\ net = <<IndexGet>>
                   /\ stdout[Len(stdout)] =
                        [msg |-> "info",
                         cef_version |-> Get(version_data, "cef_version", "unknown"),
                         url |-> CEF_DOWNLOAD_BASE \o <<"/">> \o file_info["name"],
                         sha1 |-> Get(file_info, "sha1", "")]

C3_Witness ==
    /\ args.info_only
    /\ pc = "done"
    /\ ~fs.dir
    /\ Printed(stdout, "info")

\* C4 as stated: a name ending in ".tar.bz2" goes to tar+bzip2 and a name
\* ending in ".zip" to zip; in general a name goes to tar+bzip2 exactly when it
\* ends in ".bz2" or has "tar" in it.
C4_DispatchAsStated ==
    mode # "none"
        => /\ EndsWith(filename, <<".","t","a","r",".","b","z","2">>) => mode = "tar"
           /\ EndsWith(filename, <<".","z","i","p">>) => mode = "zip"
           /\ mode = "tar" <=> \/ EndsWith(filename, <<".","b","z","2">>)
                               \/ Contains(filename, <<"t","a","r">>)

\* C4 as amended: a name goes to tar+bzip2 exactly when it ends in ".bz2" with
\* at least one character before it or has ".tar" in it, and to zip
\* otherwise; so a name ending in ".tar.bz2" goes to tar+bzip2, and a name
\* ending in ".zip" goes to zip unless it has ".tar" in it.
C4_Dispatch ==
    mode # "none"
        => /\ mode \in {"tar", "zip"}
           /\ mode = "tar" <=> \/ /\ EndsWith(filename, <<".","b","z","2">>)
                                  /\ Len(filename) > 4
                               \/ Contains(filename, <<".","t","a","r">>)
           /\ EndsWith(filename, <<".","t","a","r",".","b","z","2">>) => mode = "tar"
           /\ (/\ EndsWith(filename, <<".","z","i","p">>)
               /\ ~Contains(filename, <<".","t","a","r">>)) => mode = "zip"

C4_Witness ==
    /\ mode = "tar"
    /\ pc = "report"
    /\ EndsWith(filename, <<".","t","a","r",".","b","z","2">>)

\* The version list of the run's platform, and the number an entry is ranked by.
VersionsOfPlatform ==
    IF platform_id \in DOMAIN index /\ "versions" \in DOMAIN index[platform_id]
    THEN index[platform_id]["versions"] ELSE <<>>
StableAt(i) ==
    /\ "channel" \in DOMAIN VersionsOfPlatform[i]
    /\ VersionsOfPlatform[i]["channel"] = "stable"
Leading(v) ==
    IntOf(FirstComponent(IF "chromium_version" \in DOMAIN v
                         THEN v["chromium_version"] ELSE <<"0">>))

\* C5: when the platform has a stable entry, the selected entry is one of the
\* platform's stable entries and no stable entry of the platform has a larger
\* leading version number, whatever the order and the non-stable entries.
C5_LatestStable ==
    (pc # "select_version" /\ \E i \in 1..Len(VersionsOfPlatform) : StableAt(i))
        => /\ pc = "select_file"
           /\ error = ""
           /\ \E i \in 1..Len(VersionsOfPlatform) :
                StableAt(i) /\ VersionsOfPlatform[i] = version_data
           /\ \A i \in 1..Len(VersionsOfPlatform) :
                StableAt(i) => Leading(version_data) >= Leading(VersionsOfPlatform[i])

C5_Witness ==
    /\ pc = "select_file"
    /\ Len(VersionsOfPlatform) = 3
    /\ StableAt(1) /\ Leading(VersionsOfPlatform[1]) = 119
    /\ ~StableAt(2) /\ Leading(VersionsOfPlatform[2]) = 120
    /\ StableAt(3) /\ Leading(VersionsOfPlatform[3]) = 120
    /\ version_data = VersionsOfPlatform[3]

\* C6: when the platform has no stable entry (only other channels, an empty
\* list, or no platform in the index) the selection raises and no entry is
\* selected.
C6_NoStableFails ==
    (pc # "select_version" /\ \A i \in 1..Len(VersionsOfPlatform) : ~StableAt(i))
        => /\ pc = "error"
           /\ error = "find_latest_stable: RuntimeError"
           /\ version_data = None

C6_Witness ==
    /\ pc = "error"
    /\ Len(VersionsOfPlatform) = 2
    /\ \A i \in 1..2 : "channel" \in DOMAIN VersionsOfPlatform[i]
    /\ version_data = None

\* C7: the file entry selected is the first of kind "minimal" if there is one,
\* else the first of kind "standard", and with neither the selection raises.
C7_MinimalPreferred ==
    pc # "select_file"
        => LET files == IF "files" \in DOMAIN version_data
                        THEN version_data["files"] ELSE <<>>
               minimal == {i \in 1..Len(files) : KindIs(files[i], "minimal")}
               standard == {i \in 1..Len(files) : KindIs(files[i], "standard")}
           IN  IF minimal # {}
               THEN file_info = files[Least(minimal)] /\ error \in {"", "main: KeyError"}
               ELSE IF standard # {}
               THEN file_info = files[Least(standard)] /\ error \in {"", "main: KeyError"}
               ELSE /\ pc = "error"
                    /\ error = "get_minimal_dist: RuntimeError"
                    /\ file_info = None

C7_Witness ==
    /\ pc = "branch"
    /\ Len(version_data["files"]) = 3
    /\ KindIs(version_data["files"][1], "standard")
    /\ KindIs(version_data["files"][2], "debug")
    /\ KindIs(version_data["files"][3], "minimal")
    /\ file_info = version_data["files"][3]

\* The host's pair is a value of PLATFORM_MAP.
HostMapped ==
    \E i \in 1..Len(PLATFORM_MAP) :
        PLATFORM_MAP[i].s = host.system /\ PLATFORM_MAP[i].m = host.machine

\* C8: with --platform given and not empty, get_platform_id is not called and
\* the identifier is the argument; otherwise the identifier is the one
\* PLATFORM_MAP gives the host's (system, machine) pair, and a pair that is
\* not in the map ends the run with the unsupported-platform error.
C8_PlatformResolution ==
    pc # "start"
        => IF args.platform \notin {<<>>, <<"">>}
           THEN ~detected /\ pc = "fetch" /\ error = "" /\ platform_id = args.platform[1]
           ELSE /\ detected
                /\ IF HostMapped
                   THEN /\ pc = "fetch"
                        /\ error = ""
                        /\ \E i \in 1..Len(PLATFORM_MAP) :
                              PLATFORM_MAP[i] = [plat_id |-> platform_id,
                                                 s |-> host.system, m |-> host.machine]
                   ELSE /\ pc = "error"
                        /\ error = "get_platform_id: RuntimeError"
                        /\ platform_id = ""

C8_Witness ==
    /\ pc = "fetch"
    /\ detected
    /\ host = Host("Windows", "ARM64")
    /\ platform_id = "windowsarm64"

\* Two runs' arguments, and the marker contents a run wrote.
DiffersOnlyInVersion(a, b) ==
    /\ a.platform = b.platform
    /\ a.info_only = b.info_only
    /\ a.version # b.version
MarkerWrites(out, content) == IF Printed(out, "CEF ready at") THEN {content} ELSE {}

SelectionErrors ==
    { "get_platform_id: RuntimeError", "fetch_index: URLError",
      "find_latest_stable: RuntimeError", "find_latest_stable: ValueError",
      "get_minimal_dist: RuntimeError", "main: KeyError" }

FailedBeforeEffects ==
    (pc = "error" /\ error \in SelectionErrors)
        => /\ fs = fs0
           /\ mode = "none"
           /\ DownloadGets(net) = {}
           /\ Cardinality(IndexGets(net)) <= 1
           /\ Len(net) <= 1

\* C10: a run that ends in an error of platform detection, the index fetch,
\* version selection or file selection has left the output directory as it
\* found it, has issued no download GET and the index GET at most once, and
\* takes no further step of its own (only a new run follows).
C10_FailFast ==
    /\ []FailedBeforeEffects
    /\ [][pc = "error" => (pc' = "start" /\ runs' = runs + 1 /\ net' = <<>>)]_vars

C10_Witness ==
    /\ pc = "error"
    /\ error = "get_minimal_dist: RuntimeError"
    /\ net = <<IndexGet>>
    /\ ~fs.dir

====
